---- MODULE Spec2Model ----
(***************************************************************************)
(* A model of the kanban front end's core:                                 *)
(*   - the HTTP client's authorization-retry protocol                      *)
(*     (src/src/services/api.ts, ApiService.executeRequest/refreshTokens), *)
(*   - the Task Cache of src/src/contexts/TaskContext.tsx, fed by REST     *)
(*     responses and by Realtime Channel push events,                      *)
(*   - the Session Manager (AuthContext) and the domain operations of the  *)
(*     HTTP client (task lists, default project),                          *)
(*   - the Realtime Channel (src/src/services/websocket.ts): its sockets,  *)
(*     reconnect timers and outbound events.                               *)
(*                                                                         *)
(* JavaScript runs one task at a time.  A handler runs up to its next      *)
(* await; promise continuations (microtasks) run before any other event    *)
(* (network response, timer, user action) is handled.  The model keeps the *)
(* pending continuations in the queue micro, and every event action is     *)
(* guarded by micro = << >>.                                               *)
(***************************************************************************)
EXTENDS Naturals, Sequences, FiniteSets

\* ------------------------------------------------------------- bounds
\* calls made to the HTTP client
NumReqs == 3
\* token pairs the auth server mints (login or refresh)
MaxGen == 3
\* task requests the remote API serves
MaxOps == 3
\* push events the Realtime Channel delivers
MaxPush == 1
\* requests of the task board in flight at one time
MaxOut == 2

Reqs == 1..NumReqs

\* ------------------------------------------------------- Token Store
\* localStorage.getItem returns null for an absent key
Absent == <<"none", 0>>
\* the access / refresh token of the g-th pair minted by the auth server
AccessOf(g) == <<"access", g>>
RefreshOf(g) == <<"refresh", g>>

VARIABLES
  accessTok,           \* localStorage[STORAGE_KEYS.AUTH_TOKEN]
  refreshTok,          \* localStorage[STORAGE_KEYS.REFRESH_TOKEN]
  userData,            \* localStorage[STORAGE_KEYS.USER_DATA] present
  isRefreshing,        \* ApiService.isRefreshing
  refreshSubscribers,  \* ApiService.refreshSubscribers (callbacks, by caller)
  pc,                  \* where each call of executeRequest stands
  skipAuth,            \* the call's skipAuth argument
  isRetry,             \* the isRetry argument of the call's current attempt
  carried,             \* token in the Authorization header, per attempt
                       \* (the three are locals of a running call)
  waitSince,           \* rank of the call's refreshTokens() among the calls
                       \* still waiting for theirs (0: not waiting)
  micro,               \* pending promise continuations, in run order
  minted,              \* token pairs minted by the auth server so far
  out,                 \* what the latest step let the outside see
  tasks,               \* TaskProvider's tasks state (the Task Cache)
  server,              \* the remote API's task table, in creation order
  nextId,              \* the id the remote API gives the next task
  replies,             \* successful HTTP responses not yet handled
  ops,                 \* task requests served so far
  pushes,              \* push events delivered so far
  cev,                 \* the cache event the latest step handled
  authed,              \* authState.isAuthenticated
  authUser,            \* authState.user (0: null)
  wsOpen,              \* the Session Manager's last call left a socket
  booted,              \* initializeAuth has run
  loginPc,             \* where the running AuthProvider.login stands
  loginGen,            \* the pair the login's token call returned (0: none)
  ruPending,           \* a refreshUser call waits for /auth/me
  users,               \* TaskProvider's users state
  curReqs,             \* loads in flight, made by the mounted TaskProvider
  oldReqs,             \* requests in flight whose TaskProvider is gone
  sev,                 \* the session event the latest step handled
  defProj,             \* localStorage['default_project_id'] (<< >>: absent)
  srvProjects,         \* ids of the projects the remote API lists, in order
  srvTeams,            \* ids of the teams the remote API lists, in order
  nextProj,            \* the id the remote API gives the next project
  res,                 \* the running getOrCreateDefaultProjectId calls
  gt,                  \* the running getTasks call
  gu,                  \* the running getUsers call
  ld,                  \* the caller of the two: loadInitialData, refreshTasks
  rt,                  \* the statuses of the latest status change
  ws,                  \* the webSocketService singleton and its timers
  mounted,             \* a TaskProvider is mounted
  signals,             \* socket events delivered so far
  sinceReset,          \* reconnects scheduled since reconnectAttempts was
                       \* last set to 0
  sinceConnect,        \* reconnects scheduled since the last 'connect' event
  wev,                 \* the channel event the latest step handled
  error,               \* TaskProvider's error state ("none": null)
  mev                  \* the local mutation the latest step completed

httpVars == <<accessTok, refreshTok, userData, isRefreshing, refreshSubscribers,
              pc, skipAuth, isRetry, carried, waitSince, micro, minted, out>>

cacheVars == <<tasks, server, nextId, replies, ops, pushes, cev>>

sessVars == <<authed, authUser, wsOpen, booted, loginPc, loginGen, ruPending,
              users, curReqs, oldReqs, sev>>

apiVars == <<defProj, srvProjects, srvTeams, nextProj, res, gt, gu, ld, rt>>

chanVars == <<ws, mounted, signals, sinceReset, sinceConnect, wev>>

mutVars == <<error, mev>>

vars == <<httpVars, cacheVars, sessVars, apiVars, chanVars, mutVars>>

\* ---------------------------------------------------------- helpers
SeqToSet(s) == {s[i] : i \in 1..Len(s)}

\* fetches of its request a running call has issued so far
Sends(r) == Len(carried[r])

\* line 46: the header is set only when a token is stored and !skipAuth
AuthHeader(sa) == IF sa THEN Absent ELSE accessTok

\* What a step shows: the call that returned (0: none) with its result; the
\* value refreshTokens() gave the call that resumed and how that value came
\* about ("notoken": no refresh token, "post": its own POST was answered,
\* "callback": its subscription was called back); the 'auth:logout' events
\* dispatched; the call whose request was put on the wire (0: none).
NoOut == [req |-> 0, res |-> "none", refreshed |-> "none", via |-> "none",
          dispatched |-> 0, sent |-> 0]

\* the next rank for a call that starts waiting on refreshTokens()
NextRank ==
  1 + (CHOOSE m \in 0..NumReqs :
         /\ \A q \in Reqs : waitSince[q] <= m
         /\ m = 0 \/ \E q \in Reqs : waitSince[q] = m)

\* ------------------------------------------------------- HTTP client
\* Init: a fresh ApiService in a session that a login (or an earlier page
\* session) left in the Token Store: the first pair and the user record.
\* The empty store is reached from it by UserLogout.
HttpInit ==
  /\ accessTok = AccessOf(1)
  /\ refreshTok = RefreshOf(1)
  /\ userData = TRUE
  /\ isRefreshing = FALSE
  /\ refreshSubscribers = << >>
  /\ pc = [r \in Reqs |-> "idle"]
  /\ skipAuth = [r \in Reqs |-> FALSE]
  /\ isRetry = [r \in Reqs |-> FALSE]
  /\ carried = [r \in Reqs |-> << >>]
  /\ waitSince = [r \in Reqs |-> 0]
  /\ micro = << >>
  /\ minted = 1
  /\ out = NoOut

\* executeRequest lines 41-53: read the stored token, build the headers and
\* fetch; the call then waits for the response.
ExecuteRequest(r, sa, retry) ==
  /\ pc' = [pc EXCEPT ![r] = "inflight"]
  /\ skipAuth' = [skipAuth EXCEPT ![r] = sa]
  /\ isRetry' = [isRetry EXCEPT ![r] = retry]
  /\ carried' = [carried EXCEPT ![r] = Append(@, AuthHeader(sa))]

\* The call returns or throws (lines 75, 78): its locals are gone.
Return(r) ==
  /\ pc' = [pc EXCEPT ![r] = "done"]
  /\ skipAuth' = [skipAuth EXCEPT ![r] = FALSE]
  /\ isRetry' = [isRetry EXCEPT ![r] = FALSE]
  /\ carried' = [carried EXCEPT ![r] = << >>]
  /\ waitSince' = [waitSince EXCEPT ![r] = 0]

\* A mutant of ApiLogout: the cached user is left in the store.
ApiLogoutKeepsUser ==
  /\ accessTok' = Absent
  /\ refreshTok' = Absent
  /\ userData' = userData

\* ApiService.logout: the three keys are removed
ApiLogout ==
  /\ accessTok' = Absent
  /\ refreshTok' = Absent
  /\ userData' = FALSE

\* A call of request()/executeRequest() by any domain operation.  Calls are
\* interchangeable, so they are numbered in the order they are made.
Call(r, sa) ==
  /\ micro = << >>
  /\ pc[r] = "idle"
  /\ \A q \in Reqs : q < r => pc[q] # "idle"
  /\ ExecuteRequest(r, sa, FALSE)
  /\ out' = [NoOut EXCEPT !.sent = r]
  /\ UNCHANGED <<accessTok, refreshTok, userData, isRefreshing,
                 refreshSubscribers, waitSince, micro, minted>>

\* A mutant of RefreshTokens: the isRefreshing test of line 86 is missing.
RefreshTokensUnguarded(r) ==
  /\ refreshSubscribers' = refreshSubscribers
  /\ IF refreshTok = Absent
       THEN /\ isRefreshing' = FALSE
            /\ pc' = [pc EXCEPT ![r] = "resume"]
            /\ micro' = Append(micro, [req |-> r, refreshed |-> FALSE,
                                       via |-> "notoken"])
       ELSE /\ isRefreshing' = TRUE
            /\ pc' = [pc EXCEPT ![r] = "refreshing"]
            /\ micro' = micro

\* refreshTokens lines 85-111, up to its first suspension:
\*  - a refresh is in flight: push a callback and wait for it (86-93);
\*  - no refresh token: return false, finally resets isRefreshing (98-103,
\*    134-136); the caller's continuation is queued;
\*  - otherwise POST /auth/refresh and wait for the response (105-111).
RefreshTokens(r) ==
  IF isRefreshing
    THEN /\ refreshSubscribers' = Append(refreshSubscribers, r)
         /\ pc' = [pc EXCEPT ![r] = "subscribed"]
         /\ UNCHANGED <<isRefreshing, micro>>
    ELSE /\ refreshSubscribers' = refreshSubscribers
         /\ IF refreshTok = Absent
              THEN /\ isRefreshing' = FALSE
                   /\ pc' = [pc EXCEPT ![r] = "resume"]
                   /\ micro' = Append(micro, [req |-> r, refreshed |-> FALSE,
                                              via |-> "notoken"])
              ELSE /\ isRefreshing' = TRUE
                   /\ pc' = [pc EXCEPT ![r] = "refreshing"]
                   /\ micro' = micro

\* The response is 2xx: lines 58, 78.
RespondOk(r) ==
  /\ micro = << >>
  /\ pc[r] = "inflight"
  /\ Return(r)
  /\ out' = [NoOut EXCEPT !.req = r, !.res = "ok"]
  /\ UNCHANGED <<accessTok, refreshTok, userData, isRefreshing,
                 refreshSubscribers, micro, minted>>

\* A non-2xx response other than a 401 that starts a refresh, or a network
\* error: lines 58-60 (condition false), 74-75, 79-82.  st401 tells whether
\* the status was 401 (then this is a retried or an auth-skipping attempt).
RespondError(r, st401) ==
  /\ micro = << >>
  /\ pc[r] = "inflight"
  /\ st401 => (isRetry[r] \/ skipAuth[r])
  /\ Return(r)
  /\ out' = [NoOut EXCEPT !.req = r, !.res = "fail"]
  /\ UNCHANGED <<accessTok, refreshTok, userData, isRefreshing,
                 refreshSubscribers, micro, minted>>

\* A 401 for an attempt that is no retry and carries auth: lines 60-62.
\* (endpoint !== '/auth/refresh' always holds: the refresh call does not go
\* through executeRequest.)
Respond401(r) ==
  /\ micro = << >>
  /\ pc[r] = "inflight"
  /\ ~isRetry[r] /\ ~skipAuth[r]
  /\ RefreshTokens(r)
  /\ waitSince' = [waitSince EXCEPT ![r] = NextRank]
  /\ out' = NoOut
  /\ UNCHANGED <<accessTok, refreshTok, userData, skipAuth, isRetry,
                 carried, minted>>

\* A mutant of ReleaseOrder: the callbacks are taken from the end of the list.
ReleaseOrderReversed(r, subs) ==
  <<[req |-> r, refreshed |-> TRUE, via |-> "post"]>> \o
  [i \in 1..Len(subs) |->
     [req |-> subs[Len(subs) + 1 - i], refreshed |-> TRUE, via |-> "callback"]]

\* Lines 126-130: the callbacks run in list order and resolve the
\* subscribers' promises; the initiator then returns true.  A subscriber's
\* continuation sits one promise-resolution step further away than the
\* initiator's, so the initiator's continuation runs first, then the
\* subscribers' in list order.
ReleaseOrder(r, subs) ==
  <<[req |-> r, refreshed |-> TRUE, via |-> "post"]>> \o
  [i \in 1..Len(subs) |-> [req |-> subs[i], refreshed |-> TRUE, via |-> "callback"]]

\* A mutant of RefreshOk: the new access token is not written to the store.
RefreshOkKeepsAccessToken(r) ==
  /\ micro = << >>
  /\ pc[r] = "refreshing"
  /\ minted < MaxGen
  /\ minted' = minted + 1
  /\ accessTok' = accessTok
  /\ refreshTok' = RefreshOf(minted + 1)
  /\ micro' = ReleaseOrder(r, refreshSubscribers)
  /\ pc' = [q \in Reqs |->
              IF q = r \/ q \in SeqToSet(refreshSubscribers)
                THEN "resume" ELSE pc[q]]
  /\ refreshSubscribers' = << >>
  /\ isRefreshing' = FALSE
  /\ out' = NoOut
  /\ UNCHANGED <<userData, skipAuth, isRetry, carried, waitSince>>

\* The refresh endpoint answers 2xx with a new pair: lines 113, 118-130,
\* 134-136.
RefreshOk(r) ==
  /\ micro = << >>
  /\ pc[r] = "refreshing"
  /\ minted < MaxGen
  /\ minted' = minted + 1
  /\ accessTok' = AccessOf(minted + 1)
  /\ refreshTok' = RefreshOf(minted + 1)
  /\ micro' = ReleaseOrder(r, refreshSubscribers)
  /\ pc' = [q \in Reqs |->
              IF q = r \/ q \in SeqToSet(refreshSubscribers)
                THEN "resume" ELSE pc[q]]
  /\ refreshSubscribers' = << >>
  /\ isRefreshing' = FALSE
  /\ out' = NoOut
  /\ UNCHANGED <<userData, skipAuth, isRetry, carried, waitSince>>

\* The refresh endpoint answers non-2xx, or the fetch fails: lines 113-116
\* or 131-133, then 134-136.  The subscriber list is left as it is.
RefreshFail(r) ==
  /\ micro = << >>
  /\ pc[r] = "refreshing"
  /\ micro' = <<[req |-> r, refreshed |-> FALSE, via |-> "post"]>>
  /\ pc' = [pc EXCEPT ![r] = "resume"]
  /\ isRefreshing' = FALSE
  /\ out' = NoOut
  /\ UNCHANGED <<accessTok, refreshTok, userData, refreshSubscribers,
                 skipAuth, isRetry, carried, waitSince, minted>>

\* executeRequest resumes after `await this.refreshTokens()`: lines 62-75.
\*  refreshed: the request is issued again with isRetry = true (65);
\*  otherwise: logout(), dispatch 'auth:logout', throw (67-75).
AfterRefresh ==
  /\ micro # << >>
  /\ LET m == Head(micro)
         r == m.req
     IN /\ micro' = Tail(micro)
        /\ IF m.refreshed
             THEN /\ ExecuteRequest(r, skipAuth[r], TRUE)
                  /\ out' = [NoOut EXCEPT !.refreshed = "true", !.via = m.via, !.sent = r]
                  /\ UNCHANGED waitSince
                  /\ UNCHANGED <<accessTok, refreshTok, userData>>
             ELSE /\ ApiLogout
                  /\ Return(r)
                  /\ out' = [req |-> r, res |-> "fail", refreshed |-> "false",
                             via |-> m.via, dispatched |-> 1, sent |-> 0]
  /\ UNCHANGED <<isRefreshing, refreshSubscribers, minted>>

\* ApiService.login lines 163-164: a successful token call stores a new pair.
LoginStoreTokens ==
  /\ micro = << >>
  /\ minted < MaxGen
  /\ minted' = minted + 1
  /\ accessTok' = AccessOf(minted + 1)
  /\ refreshTok' = RefreshOf(minted + 1)
  /\ out' = NoOut
  /\ UNCHANGED <<userData, isRefreshing, refreshSubscribers, pc, skipAuth,
                 isRetry, carried, waitSince, micro>>

\* The Session Manager's logout calls ApiService.logout (a user action).
UserLogout ==
  /\ micro = << >>
  /\ accessTok # Absent \/ refreshTok # Absent \/ userData
  /\ ApiLogout
  /\ out' = NoOut
  /\ UNCHANGED <<isRefreshing, refreshSubscribers, pc, skipAuth, isRetry,
                 carried, waitSince, micro, minted>>


\* -------------------------------------------------------- Task Cache
\* A task as the cache holds it (mapTaskFromApi's result, or the payload of
\* a push event): its id and its contents (title, status, ...), of which two
\* are told apart.
TaskIds == 1..MaxOps
Contents == {"a", "b"}
TaskVals == [id : TaskIds, ver : Contents]

Ids(ts) == {ts[i].id : i \in 1..Len(ts)}

\* the kind of cache event a step handled, and the id it was about
NoEvent == [kind |-> "none", id |-> 0]
Event(k, id) == [kind |-> k, id |-> id]

\* prev.filter(task => task.id !== id): lines 89 and 150
FilterOut(prev, id) == SelectSeq(prev, LAMBDA t : t.id # id)

\* A mutant of OnTaskCreated: the exists test of lines 76-77 is missing.
OnTaskCreatedNoDedup(prev, task) == Append(prev, task)

\* onTaskCreated handler, lines 73-80
OnTaskCreated(prev, task) ==
  IF \E i \in 1..Len(prev) : prev[i].id = task.id
    THEN prev
    ELSE Append(prev, task)

\* A mutant of ReplaceById: an update for an id that is absent adds the task.
ReplaceOrInsert(prev, id, updatedTask) ==
  IF id \in Ids(prev)
    THEN [i \in 1..Len(prev) |-> IF prev[i].id = id THEN updatedTask ELSE prev[i]]
    ELSE Append(prev, updatedTask)

\* prev.map(task => task.id === id ? updatedTask : task): lines 83-85,
\* 128-130 and 178-180
ReplaceById(prev, id, updatedTask) ==
  [i \in 1..Len(prev) |-> IF prev[i].id = id THEN updatedTask ELSE prev[i]]

\* A mutant of OnTaskUpdated: the event's task is added, not put in place.
OnTaskUpdatedAppends(prev, updatedTask) == Append(prev, updatedTask)

\* onTaskUpdated handler, lines 82-86
OnTaskUpdated(prev, updatedTask) == ReplaceById(prev, updatedTask.id, updatedTask)

\* onTaskDeleted handler, lines 88-90
OnTaskDeleted(prev, taskId) == FilterOut(prev, taskId)

\* createTask's setTasks, line 100
OnCreateDone(prev, newTask) == Append(prev, newTask)

\* TaskProvider starts with no tasks; the remote API holds none yet.
CacheInit ==
  /\ tasks = << >>
  /\ server = << >>
  /\ nextId = 1
  /\ replies = {}
  /\ ops = 0
  /\ pushes = 0
  /\ cev = NoEvent

\* The remote API has served a request; its successful response starts its
\* way to the client.
Reply(r) ==
  /\ ops < MaxOps
  /\ ops' = ops + 1
  /\ replies' = replies \cup {r}

\* The remote API answers GET /tasks (loadInitialData line 53, refreshTasks
\* line 197, through ApiService.getTasks) with its table as it is now.
ServeList ==
  /\ Reply([op |-> "list", list |-> server, id |-> 0])
  /\ cev' = NoEvent
  /\ UNCHANGED <<tasks, server, nextId, pushes>>

\* The remote API handles POST /tasks/ (createTask line 96): the new task
\* gets the next id.
ServeCreate ==
  /\ LET t == [id |-> nextId, ver |-> "a"]
     IN /\ server' = Append(server, t)
        /\ Reply([op |-> "create", list |-> <<t>>, id |-> t.id])
  /\ nextId' = nextId + 1
  /\ cev' = NoEvent
  /\ UNCHANGED <<tasks, pushes>>

\* The remote API handles PUT /tasks/{id} (updateTask line 124) or PATCH
\* /tasks/{id}/status (updateTaskStatus line 174) for a task the cache shows
\* and the table still holds, and answers with the task as updated.
ServeUpdate(id, v) ==
  /\ id \in Ids(tasks)
  /\ id \in Ids(server)
  /\ LET t == [id |-> id, ver |-> v]
     IN /\ server' = ReplaceById(server, id, t)
        /\ Reply([op |-> "update", list |-> <<t>>, id |-> id])
  /\ cev' = NoEvent
  /\ UNCHANGED <<tasks, nextId, pushes>>

\* The remote API handles DELETE /tasks/{id} (deleteTask line 147).
ServeDelete(id) ==
  /\ id \in Ids(tasks)
  /\ id \in Ids(server)
  /\ server' = FilterOut(server, id)
  /\ Reply([op |-> "delete", list |-> << >>, id |-> id])
  /\ cev' = NoEvent
  /\ UNCHANGED <<tasks, nextId, pushes>>

\* loadInitialData lines 57-59 / refreshTasks lines 199-200
LoadDone(r) ==
  /\ r \in replies /\ r.op = "list"
  /\ replies' = replies \ {r}
  /\ tasks' = r.list
  /\ cev' = Event("loadDone", 0)
  /\ UNCHANGED <<server, nextId, ops, pushes>>

\* createTask lines 98-100
CreateDone(r) ==
  /\ r \in replies /\ r.op = "create"
  /\ replies' = replies \ {r}
  /\ tasks' = OnCreateDone(tasks, r.list[1])
  /\ cev' = Event("createDone", r.id)
  /\ UNCHANGED <<server, nextId, ops, pushes>>

\* updateTask lines 126-130 and updateTaskStatus lines 176-180 (the same
\* statement)
UpdateDone(r) ==
  /\ r \in replies /\ r.op = "update"
  /\ replies' = replies \ {r}
  /\ tasks' = ReplaceById(tasks, r.id, r.list[1])
  /\ cev' = Event("updateDone", r.id)
  /\ UNCHANGED <<server, nextId, ops, pushes>>

\* deleteTask lines 149-150
DeleteDone(r) ==
  /\ r \in replies /\ r.op = "delete"
  /\ replies' = replies \ {r}
  /\ tasks' = FilterOut(tasks, r.id)
  /\ cev' = Event("deleteDone", r.id)
  /\ UNCHANGED <<server, nextId, ops, pushes>>

\* A task_created push event reaches the listener of lines 73-80.  The
\* channel gives no ordering or delivery guarantee: an event about any task
\* the remote API has ever created may arrive at any time.
PushCreated(t) ==
  /\ t.id < nextId
  /\ tasks' = OnTaskCreated(tasks, t)
  /\ cev' = Event("pushCreated", t.id)
  /\ pushes < MaxPush
  /\ pushes' = pushes + 1
  /\ UNCHANGED <<server, nextId, replies, ops>>

\* A task_updated push event reaches the listener of lines 82-86.
PushUpdated(t) ==
  /\ t.id < nextId
  /\ tasks' = OnTaskUpdated(tasks, t)
  /\ cev' = Event("pushUpdated", t.id)
  /\ pushes < MaxPush
  /\ pushes' = pushes + 1
  /\ UNCHANGED <<server, nextId, replies, ops>>

\* A task_deleted push event reaches the listener of lines 88-90.
PushDeleted(id) ==
  /\ id < nextId
  /\ tasks' = OnTaskDeleted(tasks, id)
  /\ cev' = Event("pushDeleted", id)
  /\ pushes < MaxPush
  /\ pushes' = pushes + 1
  /\ UNCHANGED <<server, nextId, replies, ops>>

\* the REST side of the cache
CacheRestNext ==
  \/ ServeList
  \/ ServeCreate
  \/ \E id \in TaskIds, v \in Contents : ServeUpdate(id, v)
  \/ \E id \in TaskIds : ServeDelete(id)
  \/ \E r \in replies : LoadDone(r)
  \/ \E r \in replies : CreateDone(r)
  \/ \E r \in replies : UpdateDone(r)
  \/ \E r \in replies : DeleteDone(r)

\* the push side of the cache
CachePushNext ==
  \/ \E t \in TaskVals : PushCreated(t)
  \/ \E t \in TaskVals : PushUpdated(t)
  \/ \E id \in TaskIds : PushDeleted(id)

\* --------------------------------------------------- Session Manager
\* user records the remote API may return for the signed-in user
UserRecs == {1, 2}

\* what a load can bring: the task lists and the user directory
LoadLists == {<< >>, <<[id |-> 1, ver |-> "a"]>>}
LoadUsers == {{1}, {1, 2}}

B2N(b) == IF b THEN 1 ELSE 0

\* how many of the three keys the Token Store holds
KeysPresent == B2N(accessTok # Absent) + B2N(refreshTok # Absent) + B2N(userData)

\* The session event a step handled: its kind; was: for "init" the number of
\* keys the store held before, else 1 if the session was Authenticated
\* before; sig: whether the step dispatched 'auth:logout'; had: how many
\* tasks and users the TaskProvider held before.
NoSev == [kind |-> "none", was |-> 0, sig |-> FALSE, had |-> 0]
Sev(k, w, g) ==
  [kind |-> k, was |-> w, sig |-> g, had |-> Len(tasks) + Cardinality(users)]

\* AuthProvider's initial state (lines 21-26), a fresh WebSocketService and
\* no TaskProvider mounted.
SessInit ==
  /\ authed = FALSE
  /\ authUser = 0
  /\ wsOpen = FALSE
  /\ booted = FALSE
  /\ loginPc = "idle"
  /\ loginGen = 0
  /\ ruPending = FALSE
  /\ users = {}
  /\ curReqs = 0
  /\ oldReqs = 0
  /\ sev = NoSev

\* webSocketService.connect, lines 12-32: nothing without a stored access
\* token; else a socket exists afterwards.
WsConnect(open, token) == open \/ token # Absent

\* The three removeItem calls of initializeAuth (lines 63-65, 71-73).
PurgeAuthData ==
  /\ accessTok' = Absent
  /\ refreshTok' = Absent
  /\ userData' = FALSE

\* The route guard stops rendering the protected pages once the session is
\* not Authenticated: the TaskProvider is unmounted, its collections are
\* gone, and what it had in flight resolves into nothing.  cur and old are
\* the requests in flight when this happens.
UnmountTaskProvider(cur, old) ==
  /\ tasks' = << >>
  /\ users' = {}
  /\ curReqs' = 0
  /\ oldReqs' = old + cur

\* A mutant of AuthLogout: the socket is left open.
AuthLogoutKeepsSocket ==
  /\ ApiLogout
  /\ wsOpen' = wsOpen
  /\ authed' = FALSE
  /\ authUser' = 0

\* AuthProvider.logout, lines 140-150.
AuthLogout ==
  /\ ApiLogout
  /\ wsOpen' = FALSE
  /\ authed' = FALSE
  /\ authUser' = 0

\* A mutant of InitializeAuth: the cached user is not required.
InitializeAuthTokensOnly(parses) ==
  /\ ~booted
  /\ booted' = TRUE
  /\ sev' = Sev("init", KeysPresent, FALSE)
  /\ IF accessTok # Absent /\ refreshTok # Absent /\ parses
       THEN /\ authed' = TRUE
            /\ authUser' = 1
            /\ wsOpen' = WsConnect(wsOpen, accessTok)
            /\ UNCHANGED <<accessTok, refreshTok, userData>>
       ELSE /\ PurgeAuthData
            /\ UNCHANGED <<authed, authUser, wsOpen>>
  /\ UNCHANGED <<minted, tasks, users, curReqs, oldReqs, loginPc, loginGen,
                 ruPending>>

\* initializeAuth, lines 44-76, run once when the AuthProvider mounts.
\* parses: JSON.parse of the stored user record does not throw.
InitializeAuth(parses) ==
  /\ ~booted
  /\ booted' = TRUE
  /\ sev' = Sev("init", KeysPresent, FALSE)
  /\ IF accessTok # Absent /\ refreshTok # Absent /\ userData /\ parses
       THEN /\ authed' = TRUE
            /\ authUser' = 1
            /\ wsOpen' = WsConnect(wsOpen, accessTok)
            /\ UNCHANGED <<accessTok, refreshTok, userData>>
       ELSE /\ PurgeAuthData
            /\ UNCHANGED <<authed, authUser, wsOpen>>
  /\ UNCHANGED <<minted, tasks, users, curReqs, oldReqs, loginPc, loginGen,
                 ruPending>>

\* The user asks to log out (the pages offer it to a signed-in user).
LogoutClick ==
  /\ authed
  /\ AuthLogout
  /\ UnmountTaskProvider(curReqs, oldReqs)
  /\ sev' = Sev("logout", B2N(authed), FALSE)
  /\ UNCHANGED <<minted, booted, loginPc, loginGen, ruPending>>

\* The mounted TaskProvider starts a load: loadInitialData from the effect
\* of lines 33-37, or refreshTasks / refreshUsers.
LoadStart ==
  /\ authed
  /\ curReqs + oldReqs < MaxOut
  /\ curReqs' = curReqs + 1
  /\ sev' = NoSev
  /\ UNCHANGED <<accessTok, refreshTok, userData, minted, tasks, users,
                 oldReqs, authed, authUser, wsOpen, booted, loginPc,
                 loginGen, ruPending>>

\* loadInitialData lines 52-63: both list calls have returned.
LoadOk(list, us) ==
  /\ curReqs > 0
  /\ curReqs' = curReqs - 1
  /\ tasks' = list
  /\ users' = us
  /\ sev' = Sev("loaded", B2N(authed), FALSE)
  /\ UNCHANGED <<accessTok, refreshTok, userData, minted, oldReqs, authed,
                 authUser, wsOpen, booted, loginPc, loginGen, ruPending>>

\* A request of a TaskProvider that is gone has been answered: nobody takes
\* the result.
StaleOk ==
  /\ oldReqs > 0
  /\ oldReqs' = oldReqs - 1
  /\ sev' = NoSev
  /\ UNCHANGED <<accessTok, refreshTok, userData, minted, tasks, users,
                 curReqs, authed, authUser, wsOpen, booted, loginPc,
                 loginGen, ruPending>>

\* A mutant of RequestSessionEnded: nobody listens to 'auth:logout'.
RequestSessionEndedNoListener(old) ==
  /\ IF old THEN oldReqs > 0 ELSE curReqs > 0
  /\ ApiLogout
  /\ IF old THEN oldReqs' = oldReqs - 1 /\ curReqs' = curReqs
            ELSE curReqs' = curReqs - 1 /\ oldReqs' = oldReqs
  /\ sev' = Sev("ended", B2N(authed), TRUE)
  /\ UNCHANGED <<minted, booted, loginPc, loginGen, ruPending, tasks, users,
                 authed, authUser, wsOpen>>

\* A request in flight got a 401 and its token refresh failed: api.ts lines
\* 66-71 clear the store and dispatch 'auth:logout'; the listener of
\* AuthProvider (lines 32-37) runs logout() before dispatchEvent returns.
RequestSessionEnded(old) ==
  /\ IF old THEN oldReqs > 0 ELSE curReqs > 0
  /\ AuthLogout
  /\ IF old THEN UnmountTaskProvider(curReqs, oldReqs - 1)
            ELSE UnmountTaskProvider(curReqs - 1, oldReqs)
  /\ sev' = Sev("ended", B2N(authed), TRUE)
  /\ UNCHANGED <<minted, booted, loginPc, loginGen, ruPending>>

\* AuthProvider.login is called from the login page: lines 78-82.
LoginStart ==
  /\ booted /\ ~authed
  /\ loginPc = "idle"
  /\ loginPc' = "token"
  /\ sev' = NoSev
  /\ UNCHANGED <<accessTok, refreshTok, userData, minted, tasks, users,
                 curReqs, oldReqs, authed, authUser, wsOpen, booted,
                 loginGen, ruPending>>

\* The token call returned a pair: ApiService.login lines 155-165 store both
\* tokens and fetch the user.
LoginTokenOk ==
  /\ loginPc = "token"
  /\ minted < MaxGen
  /\ minted' = minted + 1
  /\ accessTok' = AccessOf(minted + 1)
  /\ refreshTok' = RefreshOf(minted + 1)
  /\ loginGen' = minted + 1
  /\ loginPc' = "user"
  /\ sev' = NoSev
  /\ UNCHANGED <<userData, tasks, users, curReqs, oldReqs, authed, authUser,
                 wsOpen, booted, ruPending>>

\* The token call failed: login throws (lines 103-106).
LoginTokenFail ==
  /\ loginPc = "token"
  /\ loginPc' = "idle"
  /\ sev' = Sev("loginFail", B2N(authed), FALSE)
  /\ UNCHANGED <<accessTok, refreshTok, userData, minted, tasks, users,
                 curReqs, oldReqs, authed, authUser, wsOpen, booted,
                 loginGen, ruPending>>

\* The user fetch returned user record u: ApiService.login lines 167-173,
\* then AuthProvider.login lines 84-99.
LoginUserOk(u) ==
  /\ loginPc = "user"
  /\ accessTok' = AccessOf(loginGen)
  /\ userData' = TRUE
  /\ authed' = TRUE
  /\ authUser' = u
  /\ wsOpen' = WsConnect(wsOpen, AccessOf(loginGen))
  /\ loginPc' = "idle"
  /\ loginGen' = 0
  /\ sev' = Sev("login", B2N(authed), FALSE)
  /\ UNCHANGED <<refreshTok, minted, tasks, users, curReqs, oldReqs, booted,
                 ruPending>>

\* The user fetch failed: login throws (lines 103-106); the tokens stay
\* where ApiService.login put them.  ended: the fetch failed with a 401
\* whose token refresh failed (api.ts lines 66-71).
LoginUserFail(ended) ==
  /\ loginPc = "user"
  /\ loginPc' = "idle"
  /\ loginGen' = 0
  /\ sev' = Sev("loginFail", B2N(authed), ended)
  /\ IF ended
       THEN /\ AuthLogout
            /\ UnmountTaskProvider(curReqs, oldReqs)
       ELSE UNCHANGED <<accessTok, refreshTok, userData, tasks, users,
                        curReqs, oldReqs, authed, authUser, wsOpen>>
  /\ UNCHANGED <<minted, booted, ruPending>>

\* refreshUser is called: line 154.
RefreshUserStart ==
  /\ authed
  /\ ~ruPending
  /\ ruPending' = TRUE
  /\ sev' = NoSev
  /\ UNCHANGED <<accessTok, refreshTok, userData, minted, tasks, users,
                 curReqs, oldReqs, authed, authUser, wsOpen, booted, loginPc,
                 loginGen>>

\* A mutant of RefreshUserOk: a successful fetch ends the session.
RefreshUserOkLogsOut(u) ==
  /\ ruPending
  /\ ruPending' = FALSE
  /\ AuthLogout
  /\ UnmountTaskProvider(curReqs, oldReqs)
  /\ sev' = Sev("refreshUserOk", B2N(authed), FALSE)
  /\ UNCHANGED <<minted, booted, loginPc, loginGen>>

\* refreshUser, the fetch returned user record u: lines 156-164.
RefreshUserOk(u) ==
  /\ ruPending
  /\ ruPending' = FALSE
  /\ userData' = TRUE
  /\ authUser' = u
  /\ sev' = Sev("refreshUserOk", B2N(authed), FALSE)
  /\ UNCHANGED <<accessTok, refreshTok, minted, tasks, users, curReqs,
                 oldReqs, authed, wsOpen, booted, loginPc, loginGen>>

\* refreshUser, the fetch failed: lines 165-169 call logout().  ended: it
\* failed with a 401 whose token refresh failed, so api.ts lines 66-71 ran
\* before (store cleared, 'auth:logout' dispatched and handled).
RefreshUserFail(ended) ==
  /\ ruPending
  /\ ruPending' = FALSE
  /\ AuthLogout
  /\ UnmountTaskProvider(curReqs, oldReqs)
  /\ sev' = Sev("refreshUserFail", B2N(authed), ended)
  /\ UNCHANGED <<minted, booted, loginPc, loginGen>>

\* the parts of the HTTP client and of the task board the Session Manager
\* does not touch
clientVars == <<isRefreshing, refreshSubscribers, pc, skipAuth, isRetry,
                carried, waitSince, micro, out>>
boardVars == <<server, nextId, replies, ops, pushes, cev>>

SessionStep ==
  \/ \E parses \in BOOLEAN : InitializeAuth(parses)
  \/ LogoutClick
  \/ LoadStart
  \/ \E list \in LoadLists, us \in LoadUsers : LoadOk(list, us)
  \/ StaleOk
  \/ \E old \in BOOLEAN : RequestSessionEnded(old)
  \/ LoginStart
  \/ LoginTokenOk
  \/ LoginTokenFail
  \/ \E u \in UserRecs : LoginUserOk(u)
  \/ \E ended \in BOOLEAN : LoginUserFail(ended)
  \/ RefreshUserStart
  \/ \E u \in UserRecs : RefreshUserOk(u)
  \/ \E ended \in BOOLEAN : RefreshUserFail(ended)

\* ------------------------------------------------- domain operations
\* The statuses of the UI and of the remote API; "blocked" stands for any
\* value the remote API may send that is none of the three.
UiStatuses == {"To Do", "In Progress", "Done"}
ApiStatuses == {"todo", "in_progress", "done"}
WireStatuses == ApiStatuses \cup {"blocked"}
\* the value of a JavaScript function that returns without a return
Undefined == "undefined"

\* A mutant of mapStatusToApi: 'In Progress' takes the default.
mapStatusToApiNoInProgress(status) ==
  CASE status = "To Do" -> "todo"
    [] status = "Done" -> "done"
    [] OTHER -> "todo"

\* mapStatusToApi, api.ts lines 324-335
mapStatusToApi(status) ==
  CASE status = "To Do" -> "todo"
    [] status = "In Progress" -> "in_progress"
    [] status = "Done" -> "done"
    [] OTHER -> "todo"

\* mapStatusFromApi, api.ts lines 370-379: the switch has no default, so
\* the function returns nothing for any other value.
mapStatusFromApi(status) ==
  CASE status = "todo" -> "To Do"
    [] status = "in_progress" -> "In Progress"
    [] status = "done" -> "Done"
    [] OTHER -> Undefined

\* String(n) for a remote numeric id: its decimal digits
RECURSIVE ToStr(_)
ToStr(n) == IF n < 10 THEN <<n>> ELSE ToStr(n \div 10) \o <<n % 10>>

\* Number(s) for a string of decimal digits
RECURSIVE ToNum(_)
ToNum(str) ==
  IF str = << >> THEN 0
  ELSE 10 * ToNum(SubSeq(str, 1, Len(str) - 1)) + str[Len(str)]

\* mapTaskFromApi, api.ts lines 381-397 (of the fields, the id and the
\* status)
mapTaskFromApi(apiTask) ==
  [id |-> ToStr(apiTask.id), status |-> mapStatusFromApi(apiTask.status)]

\* A mutant of MapList: the last task of the answer is lost.
MapListDropsLast(list) ==
  [i \in 1..(IF Len(list) = 0 THEN 0 ELSE Len(list) - 1) |->
     mapTaskFromApi(list[i])]

\* (res.data || []).map(this.mapTaskFromApi), lines 236 and 243
MapList(list) == [i \in 1..Len(list) |-> mapTaskFromApi(list[i])]

\* the task lists the remote API may answer with
ApiLists ==
  { << >>,
    <<[id |-> 1, status |-> "todo"]>>,
    <<[id |-> 1, status |-> "blocked"]>>,
    <<[id |-> 10, status |-> "in_progress"]>>,
    <<[id |-> 10, status |-> "done"], [id |-> 11, status |-> "todo"]>> }

\* the callers of getOrCreateDefaultProjectId that may run at one time:
\* getTasks (line 241) and the Realtime Channel's initializeProjectContext
\* (websocket.ts line 223)
Resolvers == {"tasks", "socket"}

\* a call: where it stands, what it returned, how it got it ("cache",
\* "list", "create", or why it failed), remote calls it issued
IdleCall == [pc |-> "idle", ret |-> 0, via |-> "none", calls |-> 0]

ApiIdle ==
  /\ nextProj = 10
  /\ res = [r \in Resolvers |-> IdleCall]
  /\ gt = [pc |-> "idle", ret |-> << >>, wire |-> << >>, why |-> "none"]
  /\ gu = [pc |-> "idle", ret |-> {}, why |-> "none"]
  /\ ld = "none"
  /\ rt = [ui |-> "none", api |-> "none", back |-> "none"]

\* a user who belongs to one team and has no project yet
ApiInit0 ==
  /\ ApiIdle
  /\ defProj = << >>
  /\ srvProjects = << >>
  /\ srvTeams = <<7>>

\* getOrCreateDefaultProjectId lines 400-406, up to its first await: the
\* value of res after r called it.
ResolveBegin(r) ==
  IF defProj # << >>
    THEN [res EXCEPT ![r] = [pc |-> "done", ret |-> ToNum(defProj),
                             via |-> "cache", calls |-> 0]]
    ELSE [res EXCEPT ![r] = [pc |-> "projects", ret |-> 0, via |-> "none",
                             calls |-> 1]]

\* getTasks lines 241-250 after its getOrCreateDefaultProjectId returned
\* (ok) or threw.  Both messages the function throws with (lines 442, 444)
\* hold the word 'team', so lines 247-248 and 259-260 throw on.
GtAfterResolve(ok) ==
  IF gt.pc # "resolve" THEN gt
  ELSE IF ok THEN [gt EXCEPT !.pc = "plist"]
  ELSE [pc |-> "raised", ret |-> << >>, wire |-> << >>, why |-> "resolve"]

\* A caller asks for the default project.
ResolveStart(r) ==
  /\ res[r].pc \in {"idle", "done", "failed"}
  /\ res' = ResolveBegin(r)
  /\ UNCHANGED <<defProj, srvProjects, srvTeams, nextProj, gt, gu, ld, rt,
                 tasks, users>>

\* Lines 406-411: the project list has arrived.
ProjectsOk(r) ==
  /\ res[r].pc = "projects"
  /\ IF Len(srvProjects) > 0
       THEN /\ defProj' = ToStr(srvProjects[1])
            /\ res' = [res EXCEPT ![r] = [@ EXCEPT !.pc = "done",
                                            !.ret = srvProjects[1],
                                            !.via = "list"]]
            /\ gt' = IF r = "tasks" THEN GtAfterResolve(TRUE) ELSE gt
       ELSE /\ res' = [res EXCEPT ![r] = [@ EXCEPT !.pc = "teams",
                                            !.calls = @ + 1]]
            /\ UNCHANGED <<defProj, gt>>
  /\ UNCHANGED <<srvProjects, srvTeams, nextProj, gu, ld, rt, tasks, users>>

\* Lines 414-432: the team list has arrived; without a team the function
\* throws, else it asks for a new project under the first team.
TeamsOk(r) ==
  /\ res[r].pc = "teams"
  /\ IF Len(srvTeams) = 0
       THEN /\ res' = [res EXCEPT ![r] = [@ EXCEPT !.pc = "failed",
                                            !.via = "noteam"]]
            /\ gt' = IF r = "tasks" THEN GtAfterResolve(FALSE) ELSE gt
       ELSE /\ res' = [res EXCEPT ![r] = [@ EXCEPT !.pc = "create",
                                            !.calls = @ + 1]]
            /\ gt' = gt
  /\ UNCHANGED <<defProj, srvProjects, srvTeams, nextProj, gu, ld, rt,
                 tasks, users>>

\* Lines 429-436: the remote API has created the project and its answer
\* has arrived.
CreateOk(r) ==
  /\ res[r].pc = "create"
  /\ srvProjects' = Append(srvProjects, nextProj)
  /\ nextProj' = nextProj + 1
  /\ defProj' = ToStr(nextProj)
  /\ res' = [res EXCEPT ![r] = [@ EXCEPT !.pc = "done", !.ret = nextProj,
                                  !.via = "create"]]
  /\ gt' = IF r = "tasks" THEN GtAfterResolve(TRUE) ELSE gt
  /\ UNCHANGED <<srvTeams, gu, ld, rt, tasks, users>>

\* Lines 437-445: one of the three requests failed.
ResolveFail(r) ==
  /\ res[r].pc \in {"projects", "teams", "create"}
  /\ res' = [res EXCEPT ![r] = [@ EXCEPT !.pc = "failed", !.via = "error"]]
  /\ gt' = IF r = "tasks" THEN GtAfterResolve(FALSE) ELSE gt
  /\ UNCHANGED <<defProj, srvProjects, srvTeams, nextProj, gu, ld, rt,
                 tasks, users>>

\* TaskProvider calls loadInitialData (lines 52-55: getTasks and getUsers
\* together) or refreshTasks (line 197: getTasks alone).
LoadCall(who) ==
  /\ ld = "none"
  /\ ld' = who
  /\ gt' = [pc |-> "list", ret |-> << >>, wire |-> << >>, why |-> "none"]
  /\ gu' = IF who = "loadInitialData"
             THEN [pc |-> "users", ret |-> {}, why |-> "none"]
             ELSE [pc |-> "idle", ret |-> {}, why |-> "none"]
  /\ UNCHANGED <<defProj, srvProjects, srvTeams, nextProj, res, rt, tasks,
                 users>>

\* getTasks lines 235-253: the unfiltered list has arrived.
ListOk(list) ==
  /\ gt.pc = "list"
  /\ IF Len(MapList(list)) = 0
       THEN /\ res' = ResolveBegin("tasks")
            /\ gt' = IF defProj # << >>
                       THEN [gt EXCEPT !.pc = "plist"]
                       ELSE [gt EXCEPT !.pc = "resolve"]
       ELSE /\ gt' = [pc |-> "done", ret |-> MapList(list), wire |-> list,
                    why |-> "list"]
            /\ res' = res
  /\ UNCHANGED <<defProj, srvProjects, srvTeams, nextProj, gu, ld, rt,
                 tasks, users>>

\* A mutant of ListFail: every failure is thrown on.
ListFailRethrowsAll(team) ==
  /\ gt.pc = "list"
  /\ gt' = [pc |-> "raised", ret |-> << >>, wire |-> << >>,
            why |-> IF team THEN "team" ELSE "failed"]
  /\ UNCHANGED <<defProj, srvProjects, srvTeams, nextProj, res, gu, ld, rt,
                 tasks, users>>

\* getTasks lines 254-265: the unfiltered request failed.  team: the
\* error's message holds the word 'team'.
ListFail(team) ==
  /\ gt.pc = "list"
  /\ gt' = IF team THEN [pc |-> "raised", ret |-> << >>, wire |-> << >>, why |-> "team"]
                   ELSE [pc |-> "done", ret |-> << >>, wire |-> << >>, why |-> "failed"]
  /\ UNCHANGED <<defProj, srvProjects, srvTeams, nextProj, res, gu, ld, rt,
                 tasks, users>>

\* getTasks lines 242-243, 253: the list filtered by the default project
\* has arrived.
ProjectListOk(list) ==
  /\ gt.pc = "plist"
  /\ gt' = [pc |-> "done", ret |-> MapList(list), wire |-> list,
                    why |-> "plist"]
  /\ UNCHANGED <<defProj, srvProjects, srvTeams, nextProj, res, gu, ld, rt,
                 tasks, users>>

\* getTasks lines 244-250, 253: the filtered request failed; tasks is still
\* the empty list of line 236.
ProjectListFail(team) ==
  /\ gt.pc = "plist"
  /\ gt' = IF team THEN [pc |-> "raised", ret |-> << >>, wire |-> << >>, why |-> "team"]
                   ELSE [pc |-> "done", ret |-> << >>, wire |-> << >>, why |-> "failed"]
  /\ UNCHANGED <<defProj, srvProjects, srvTeams, nextProj, res, gu, ld, rt,
                 tasks, users>>

\* getUsers line 215: the user list has arrived.
UsersOk(us) ==
  /\ gu.pc = "users"
  /\ gu' = [pc |-> "done", ret |-> us, why |-> "list"]
  /\ UNCHANGED <<defProj, srvProjects, srvTeams, nextProj, res, gt, ld, rt,
                 tasks, users>>

\* getUsers lines 216-219: the request failed; ask for the current user.
UsersFail ==
  /\ gu.pc = "users"
  /\ gu' = [gu EXCEPT !.pc = "me"]
  /\ UNCHANGED <<defProj, srvProjects, srvTeams, nextProj, res, gt, ld, rt,
                 tasks, users>>

\* getUsers line 220: the current user has arrived (u = 0: no data).
MeOk(u) ==
  /\ gu.pc = "me"
  /\ gu' = [pc |-> "done", ret |-> IF u = 0 THEN {} ELSE {u},
            why |-> "fallback"]
  /\ UNCHANGED <<defProj, srvProjects, srvTeams, nextProj, res, gt, ld, rt,
                 tasks, users>>

\* getUsers lines 221-223: that failed too; the first error is thrown.
MeFail ==
  /\ gu.pc = "me"
  /\ gu' = [pc |-> "raised", ret |-> {}, why |-> "failed"]
  /\ UNCHANGED <<defProj, srvProjects, srvTeams, nextProj, res, gt, ld, rt,
                 tasks, users>>

\* loadInitialData lines 52-69: Promise.all has settled, with both results
\* or as soon as one of the two calls threw; then the catch runs and
\* nothing is stored.
LoadInitialDataDone ==
  /\ ld = "loadInitialData"
  /\ \/ /\ gt.pc = "done" /\ gu.pc = "done"
        /\ tasks' = gt.ret
        /\ users' = gu.ret
        /\ ld' = "stored"
     \/ /\ gt.pc = "raised" \/ gu.pc = "raised"
        /\ ld' = "failed"
        /\ UNCHANGED <<tasks, users>>
  /\ UNCHANGED <<defProj, srvProjects, srvTeams, nextProj, res, gt, gu, rt>>

\* refreshTasks lines 197-207.
RefreshTasksDone ==
  /\ ld = "refreshTasks"
  /\ \/ /\ gt.pc = "done"
        /\ tasks' = gt.ret
        /\ ld' = "stored"
     \/ /\ gt.pc = "raised"
        /\ ld' = "failed"
        /\ UNCHANGED tasks
  /\ UNCHANGED <<defProj, srvProjects, srvTeams, nextProj, res, gt, gu, rt,
                 users>>

\* The caller has returned and both calls have settled; their locals are
\* gone.
LoadReturn ==
  /\ ld \in {"stored", "failed"}
  /\ gt.pc \in {"done", "raised"}
  /\ gu.pc \in {"idle", "done", "raised"}
  /\ ld' = "none"
  /\ gt' = [pc |-> "idle", ret |-> << >>, wire |-> << >>, why |-> "none"]
  /\ gu' = [pc |-> "idle", ret |-> {}, why |-> "none"]
  /\ UNCHANGED <<defProj, srvProjects, srvTeams, nextProj, res, rt, tasks,
                 users>>

\* updateTaskStatus for a task the cache shows: api.ts lines 315-321 send
\* mapStatusToApi(status); the remote API answers with the task as updated;
\* mapTaskFromApi maps it back and TaskContext.tsx lines 176-180 put it in
\* place.
UpdateTaskStatus(i, status) ==
  /\ i \in 1..Len(tasks)
  /\ ld = "none"
  /\ LET api == mapStatusToApi(status)
         back == mapStatusFromApi(api)
     IN /\ tasks' = [tasks EXCEPT ![i] = [@ EXCEPT !.status = back]]
        /\ rt' = [ui |-> status, api |-> api, back |-> back]
  /\ UNCHANGED <<defProj, srvProjects, srvTeams, nextProj, res, gt, gu, ld,
                 users>>

\* default-project resolutions, alone
ProjectStep ==
  \/ \E r \in Resolvers : ResolveStart(r)
  \/ \E r \in Resolvers : ProjectsOk(r)
  \/ \E r \in Resolvers : TeamsOk(r)
  \/ \E r \in Resolvers : CreateOk(r)
  \/ \E r \in Resolvers : ResolveFail(r)

\* the loads of the task board and what they call
ApiStep ==
  \/ ProjectsOk("tasks")
  \/ TeamsOk("tasks")
  \/ CreateOk("tasks")
  \/ ResolveFail("tasks")
  \/ \E who \in {"loadInitialData", "refreshTasks"} : LoadCall(who)
  \/ \E list \in ApiLists : ListOk(list)
  \/ \E team \in BOOLEAN : ListFail(team)
  \/ \E list \in ApiLists : ProjectListOk(list)
  \/ \E team \in BOOLEAN : ProjectListFail(team)
  \/ \E us \in LoadUsers : UsersOk(us)
  \/ UsersFail
  \/ \E u \in {0} \cup UserRecs : MeOk(u)
  \/ MeFail
  \/ LoadInitialDataDone
  \/ RefreshTasksDone
  \/ LoadReturn
  \/ \E i \in 1..2, status \in UiStatuses : UpdateTaskStatus(i, status)

\* --------------------------------------------------- Realtime Channel
\* socket events and refreshConnection calls the model delivers
MaxSignals == 6

\* websocket.ts lines 8 and 9
maxReconnectAttempts == 5
reconnectDelay == 1000

\* The states of the socket this.socket refers to: "none" is null;
\* "connecting" from io() to its first event; "connected" after 'connect';
\* "closed" after a 'disconnect' or 'connect_error' event (the object is
\* still referred to, socket.connected is false).
SocketStates == {"none", "connecting", "connected", "closed"}

\* who called connect() when it made the socket
Makers == {"init", "login", "timer", "wait", "refresh"}

\* project ids the default-project resolution may return
ProjectIds == {9}

\* The fields of the WebSocketService instance, its pending timers, its
\* sockets, and what the running handler did:
\*   token    the auth token given to io() for this.socket
\*   by       the caller of the connect() that made this.socket
\*   timers   reconnect timers of handleReconnect that have not fired
\*   waits    handleTokenRefreshAndReconnect calls in their one-second wait
\*   strays   sockets made by io() on which disconnect() was never called and
\*            which this.socket stopped referring to while they were
\*            connecting
\*   listening  TaskProvider's task callbacks are registered on this.socket
\*   made, over, delay   the running handler called io(), with that many
\*            sockets connecting or connected; it set a timer of that delay
NoChannel ==
  [socket |-> "none", token |-> Absent, by |-> "none",
   reconnectAttempts |-> 0, currentProjectId |-> 0,
   timers |-> 0, waits |-> 0, strays |-> 0, listening |-> FALSE,
   made |-> FALSE, over |-> 0, delay |-> 0]

\* the channel as a handler finds it
Fresh(w) == [w EXCEPT !.made = FALSE, !.over = 0, !.delay = 0]

\* sockets that are connecting or connected
Live(w) ==
  w.strays + (IF w.socket \in {"connecting", "connected"} THEN 1 ELSE 0)

\* connect, lines 12-32.  token: what localStorage holds under AUTH_TOKEN.
\* The socket io() returns has none of TaskProvider's callbacks.
Connect(w, token, by) ==
  IF w.socket = "connected" THEN w
  ELSE IF token = Absent THEN w
  ELSE [w EXCEPT !.socket = "connecting", !.token = token, !.by = by,
                 !.strays = IF w.socket = "connecting" THEN @ + 1 ELSE @,
                 !.listening = FALSE, !.made = TRUE, !.over = Live(w)]

\* A mutant of HandleReconnect: the test of line 85 is missing.
HandleReconnectUncapped(w) ==
  [w EXCEPT !.reconnectAttempts = @ + 1,
            !.timers = @ + 1,
            !.delay = reconnectDelay * 2 ^ w.reconnectAttempts]

\* handleReconnect, lines 84-96
HandleReconnect(w) ==
  IF w.reconnectAttempts < maxReconnectAttempts
    THEN [w EXCEPT !.reconnectAttempts = @ + 1,
                   !.timers = @ + 1,
                   !.delay = reconnectDelay * 2 ^ w.reconnectAttempts]
    ELSE w

\* this.socket.disconnect(); this.socket = null (lines 35-38, 102-105,
\* 205-208).  Socket.disconnect() of socket.io-client, called on a connected
\* socket, emits 'disconnect' (reason 'io client disconnect') to the
\* socket's listeners before it returns: the listener of lines 54-57 runs.
Disconnect(w) ==
  IF w.socket = "none" THEN w
  ELSE [(IF w.socket = "connected" THEN HandleReconnect(w) ELSE w)
          EXCEPT !.socket = "none", !.token = Absent, !.by = "none",
                 !.listening = FALSE]

\* the channel event a step handled; nth, nthc: if the step set a reconnect
\* timer, its number among those set since reconnectAttempts was last set
\* to 0, and among those set since the last 'connect' event (else 0);
\* before, task: for a push event, the cache before it and the event's task
NoWev == [kind |-> "none", nth |-> 0, nthc |-> 0, before |-> << >>, task |-> 0]

\* A freshly loaded page: a WebSocketService with no socket (lines 6-10),
\* no TaskProvider.
ChanInit ==
  /\ ws = NoChannel
  /\ mounted = FALSE
  /\ signals = 0
  /\ sinceReset = 0
  /\ sinceConnect = 0
  /\ wev = NoWev

\* What a step leaves behind: the channel v, the event's record, and the
\* two counts; reset: the step has set reconnectAttempts to 0 (after any
\* timer it set); conn: the step handled a 'connect' event.
Note(kind, v, reset, conn, before, task) ==
  /\ ws' = v
  /\ wev' = [kind |-> kind,
             nth |-> IF v.delay > 0 THEN sinceReset + 1 ELSE 0,
             nthc |-> IF v.delay > 0 THEN sinceConnect + 1 ELSE 0,
             before |-> before, task |-> task]
  /\ sinceReset' = IF reset THEN 0
                   ELSE IF v.delay > 0 THEN sinceReset + 1 ELSE sinceReset
  /\ sinceConnect' = IF conn THEN 0
                     ELSE IF v.delay > 0 THEN sinceConnect + 1 ELSE sinceConnect

\* what the channel's own steps leave alone
sessionVars == <<accessTok, refreshTok, userData, minted, sessVars>>

\* one more socket event
Signal ==
  /\ signals < MaxSignals
  /\ signals' = signals + 1

\* 'connect' on this.socket, lines 44-52.  A closed socket's manager keeps
\* trying on its own, so the event may also come for a socket that has
\* failed.
SocketConnected ==
  /\ ws.socket \in {"connecting", "closed"}
  /\ Signal
  /\ Note("connect", [Fresh(ws) EXCEPT !.socket = "connected",
                                       !.reconnectAttempts = 0],
          TRUE, TRUE, << >>, 0)
  /\ UNCHANGED <<sessionVars, tasks, mounted>>

\* 'disconnect' on this.socket, lines 54-57
SocketDisconnected ==
  /\ ws.socket = "connected"
  /\ Signal
  /\ Note("disconnect", HandleReconnect([Fresh(ws) EXCEPT !.socket = "closed"]),
          FALSE, FALSE, << >>, 0)
  /\ UNCHANGED <<sessionVars, tasks, mounted>>

\* 'connect_error' on this.socket, lines 59-62; it comes again for each
\* attempt the closed socket's manager makes on its own.
SocketConnectError ==
  /\ ws.socket \in {"connecting", "closed"}
  /\ Signal
  /\ Note("connect_error", HandleReconnect([Fresh(ws) EXCEPT !.socket = "closed"]),
          FALSE, FALSE, << >>, 0)
  /\ UNCHANGED <<sessionVars, tasks, mounted>>

\* 'connect_error' or 'disconnect' on a socket this.socket no longer refers
\* to: its listeners (lines 54-62) still call handleReconnect.
StrayFailed ==
  /\ ws.strays > 0
  /\ Signal
  /\ Note("stray_error", HandleReconnect([Fresh(ws) EXCEPT !.strays = @ - 1]),
          FALSE, FALSE, << >>, 0)
  /\ UNCHANGED <<sessionVars, tasks, mounted>>

\* 'authentication_error' on this.socket, lines 69-75, and
\* handleTokenRefreshAndReconnect up to its await, lines 98-108.
AuthenticationError(invalid) ==
  /\ ws.socket = "connected"
  /\ Signal
  /\ Note(IF invalid THEN "invalid_token" ELSE "authentication_error",
          IF invalid THEN [Disconnect(Fresh(ws)) EXCEPT !.waits = @ + 1]
                     ELSE Fresh(ws),
          FALSE, FALSE, << >>, 0)
  /\ UNCHANGED <<sessionVars, tasks, mounted>>

\* handleTokenRefreshAndReconnect after its wait, lines 110-120
WaitOver ==
  /\ ws.waits > 0
  /\ LET w == [Fresh(ws) EXCEPT !.waits = @ - 1]
         go == accessTok # Absent /\ refreshTok # Absent
     IN Note("wait_over",
             IF go THEN Connect([w EXCEPT !.reconnectAttempts = 0], accessTok, "wait")
                   ELSE w,
             go, FALSE, << >>, 0)
  /\ UNCHANGED <<sessionVars, tasks, mounted, signals>>

\* A reconnect timer fires: lines 89-92.
TimerFires ==
  /\ ws.timers > 0
  /\ Note("timer", Connect([Fresh(ws) EXCEPT !.timers = @ - 1], accessTok, "timer"),
          FALSE, FALSE, << >>, 0)
  /\ UNCHANGED <<sessionVars, tasks, mounted, signals>>

\* refreshConnection, lines 203-211, offered to the Session Manager for use
\* after a token refresh
RefreshConnection ==
  /\ authed
  /\ Signal
  /\ Note("refresh",
          Connect([Disconnect(Fresh(ws)) EXCEPT !.reconnectAttempts = 0],
                  accessTok, "refresh"),
          TRUE, FALSE, << >>, 0)
  /\ UNCHANGED <<sessionVars, tasks, mounted>>

\* 'authenticated' on this.socket, lines 77-81, and initializeProjectContext,
\* lines 219-228: joinProject with the resolved id, or nothing if the
\* resolution failed.
ServerAuthenticated(p) ==
  /\ ws.socket = "connected"
  /\ Signal
  /\ Note("authenticated",
          IF p # 0 THEN [Fresh(ws) EXCEPT !.currentProjectId = p] ELSE Fresh(ws),
          FALSE, FALSE, << >>, 0)
  /\ UNCHANGED <<sessionVars, tasks, mounted>>

\* the task events the remote side pushes, and the tasks they carry
PushKinds == {"task_created", "task_updated", "task_deleted"}
PushVals == {[id |-> 1, ver |-> "a"], [id |-> 1, ver |-> "b"]}

\* what TaskProvider's callback for the event makes of the cache, lines 73-90
PushApply(kind, prev, t) ==
  CASE kind = "task_created" -> OnTaskCreated(prev, t)
    [] kind = "task_updated" -> OnTaskUpdated(prev, t)
    [] kind = "task_deleted" -> OnTaskDeleted(prev, t.id)

\* A task event arrives on this.socket: the callbacks registered on that
\* socket (lines 157-167) run, if any.
SocketPush(kind, t) ==
  /\ ws.socket = "connected"
  /\ Signal
  /\ tasks' = IF ws.listening THEN PushApply(kind, tasks, t) ELSE tasks
  /\ Note(kind, Fresh(ws), FALSE, FALSE, tasks, t)
  /\ UNCHANGED <<sessionVars, mounted>>

\* A TaskProvider is mounted in an Authenticated session: the effect of
\* TaskContext.tsx lines 33-37 starts loadInitialData and registers the
\* three callbacks on the socket there is (websocket.ts lines 157-167, which
\* do nothing without a socket).
MountTaskProvider ==
  /\ ~mounted
  /\ LoadStart
  /\ mounted' = TRUE
  /\ Note("mount", [Fresh(ws) EXCEPT !.listening = ws.socket # "none"],
          FALSE, FALSE, << >>, 0)
  /\ UNCHANGED signals

\* a step of the Session Manager or the task board that does not touch the
\* channel
Aside(A) ==
  /\ A
  /\ Note("none", Fresh(ws), FALSE, FALSE, << >>, 0)
  /\ UNCHANGED <<mounted, signals>>

\* initializeAuth with its connect() of line 60
ChannelInitializeAuth(parses) ==
  /\ InitializeAuth(parses)
  /\ Note("init",
          IF accessTok # Absent /\ refreshTok # Absent /\ userData /\ parses
            THEN Connect(Fresh(ws), accessTok, "init")
            ELSE Fresh(ws),
          FALSE, FALSE, << >>, 0)
  /\ UNCHANGED <<mounted, signals>>

\* AuthProvider.login's last step with its connect() of line 99; the store
\* then holds the token of line 87.
ChannelLoginUserOk(u) ==
  /\ LoginUserOk(u)
  /\ Note("login", Connect(Fresh(ws), AccessOf(loginGen), "login"),
          FALSE, FALSE, << >>, 0)
  /\ UNCHANGED <<mounted, signals>>

\* AuthProvider.logout with its disconnect() of line 142; the route guard
\* unmounts the TaskProvider.
ChannelLogout ==
  /\ Note("logout", Disconnect(Fresh(ws)), FALSE, FALSE, << >>, 0)
  /\ mounted' = FALSE
  /\ UNCHANGED signals

\* the channel's own steps: socket events and timers
SocketStep ==
  \/ SocketConnected
  \/ SocketDisconnected
  \/ SocketConnectError
  \/ \E invalid \in BOOLEAN : AuthenticationError(invalid)
  \/ WaitOver
  \/ TimerFires
  \/ RefreshConnection

\* the Realtime Channel of one session that was resumed at process start
ReconnectStep ==
  \/ ChannelInitializeAuth(TRUE)
  \/ MountTaskProvider
  \/ SocketStep
  \/ StrayFailed
  \/ \E p \in {0} \cup ProjectIds : ServerAuthenticated(p)
  \/ \E kind \in PushKinds, t \in PushVals : SocketPush(kind, t)

\* the Realtime Channel across the sessions of the Session Manager
ChannelStep ==
  \/ \E parses \in BOOLEAN : ChannelInitializeAuth(parses)
  \/ LogoutClick /\ ChannelLogout
  \/ Aside(LoginStart)
  \/ Aside(LoginTokenOk)
  \/ Aside(LoginTokenFail)
  \/ \E u \in UserRecs : ChannelLoginUserOk(u)
  \/ Aside(LoginUserFail(FALSE))
  \/ LoginUserFail(TRUE) /\ ChannelLogout
  \/ SocketStep

\* ------------------------------------------------------ local mutations
\* messages a failed request may carry (api.ts line 74), one of them
\* team-related
Messages == {"Request failed", "no team"}

\* the local mutation a step completed: its kind and task id; before: the
\* cache before the step; socket, joined: this.socket and currentProjectId
\* as the step found them; emitted, about: the outbound event given to the
\* socket and the task id in it; raised: the call threw to its caller
NoMev ==
  [kind |-> "none", id |-> 0, before |-> << >>, socket |-> "none",
   joined |-> 0, emitted |-> "none", about |-> 0, raised |-> FALSE]

\* TaskProvider's initial state, lines 27-30
MutInit ==
  /\ error = "none"
  /\ mev = NoMev

\* A mutant of Emit: the test of currentProjectId is missing.
EmitWithoutProject(w, event) ==
  IF w.socket = "none" THEN "none"
  ELSE event

\* emitTaskCreated / emitTaskUpdated / emitTaskDeleted, websocket.ts lines
\* 124-146: the event given to the socket, if any.
Emit(w, event) ==
  IF w.currentProjectId = 0 THEN "none"
  ELSE IF w.socket = "none" THEN "none"
  ELSE event

\* the outbound event of each kind of mutation
EventOf(kind) ==
  CASE kind = "create" -> "task_created"
    [] kind = "update" -> "task_updated"
    [] kind = "delete" -> "task_deleted"

\* A mutation is called and the remote API serves it: setError(null) of
\* lines 95, 123, 146, 173, then the request.
MutationCall(A) ==
  /\ A
  /\ error' = "none"
  /\ UNCHANGED mev

\* A mutation is called and its request fails (network, 4xx, 5xx): the
\* failure starts its way to the client.
MutationRefused(kind, id) ==
  /\ kind = "create" \/ id \in Ids(tasks)
  /\ Reply([op |-> "failed", list |-> <<kind>>, id |-> id])
  /\ cev' = NoEvent
  /\ error' = "none"
  /\ UNCHANGED <<tasks, server, nextId, pushes, mev>>

\* The successful response of a mutation is handled: lines 98-110, 126-133,
\* 149-160, 176-183.  tracked: the bookkeeping of lines 103-107 / 153-157
\* (JSON.parse of the user's list of created tasks) does not throw; if it
\* throws the cache has been changed, nothing is emitted, and the catch
\* block records the message and throws on.
MutationDone(kind, r, tracked) ==
  /\ CASE kind = "create" -> CreateDone(r)
       [] kind = "update" -> UpdateDone(r) /\ tracked
       [] kind = "delete" -> DeleteDone(r)
  /\ mev' = [kind |-> kind, id |-> r.id, before |-> tasks,
             socket |-> ws.socket, joined |-> ws.currentProjectId,
             emitted |-> IF tracked THEN Emit(ws, EventOf(kind)) ELSE "none",
             about |-> IF tracked /\ Emit(ws, EventOf(kind)) # "none"
                         THEN r.id ELSE 0,
             raised |-> ~tracked]
  /\ error' = IF tracked THEN error ELSE "Unexpected token"

\* A mutant of MutationFailed: the failure is swallowed.
MutationFailedSilently(r, msg) ==
  /\ r \in replies /\ r.op = "failed"
  /\ replies' = replies \ {r}
  /\ cev' = Event("failed", r.id)
  /\ mev' = [kind |-> "failed", id |-> r.id, before |-> tasks,
             socket |-> ws.socket, joined |-> ws.currentProjectId,
             emitted |-> "none", about |-> 0, raised |-> FALSE]
  /\ error' = error
  /\ UNCHANGED <<tasks, server, nextId, ops, pushes>>

\* The failure of a mutation's request is handled: the catch blocks of lines
\* 114-118, 137-141, 164-168, 187-191 record the message and throw on.  For a
\* create, api.ts lines 288-293 first replace a team-related message.
MutationFailed(r, msg) ==
  /\ r \in replies /\ r.op = "failed"
  /\ replies' = replies \ {r}
  /\ cev' = Event("failed", r.id)
  /\ mev' = [kind |-> "failed", id |-> r.id, before |-> tasks,
             socket |-> ws.socket, joined |-> ws.currentProjectId,
             emitted |-> "none", about |-> 0, raised |-> TRUE]
  /\ error' = IF r.list[1] = "create" /\ msg = "no team"
                THEN "Unable to create task. Please ensure you have access to a team."
                ELSE msg
  /\ UNCHANGED <<tasks, server, nextId, ops, pushes>>

\* the local mutations of the task board
MutationStep ==
  \/ MutationCall(ServeCreate)
  \/ \E id \in TaskIds, v \in Contents : MutationCall(ServeUpdate(id, v))
  \/ \E id \in TaskIds : MutationCall(ServeDelete(id))
  \/ \E kind \in {"create", "update", "delete"}, id \in TaskIds :
        MutationRefused(kind, id)
  \/ \E kind \in {"create", "update", "delete"}, r \in replies, tracked \in BOOLEAN :
        MutationDone(kind, r, tracked)
  \/ \E r \in replies, msg \in Messages : MutationFailed(r, msg)

\* the channel steps that decide whether a mutation is mirrored
JoinStep ==
  \/ ChannelInitializeAuth(TRUE)
  \/ SocketConnected
  \/ \E p \in ProjectIds : ServerAuthenticated(p)
  \/ AuthenticationError(TRUE)

\* ------------------------------------------------------ specifications
HttpNext ==
  \/ \E r \in Reqs, sa \in BOOLEAN : Call(r, sa)
  \/ \E r \in Reqs : RespondOk(r)
  \/ \E r \in Reqs, st401 \in BOOLEAN : RespondError(r, st401)
  \/ \E r \in Reqs : Respond401(r)
  \/ \E r \in Reqs : RefreshOk(r)
  \/ \E r \in Reqs : RefreshFail(r)
  \/ AfterRefresh
  \/ LoginStoreTokens
  \/ UserLogout

Init == HttpInit /\ CacheInit /\ SessInit /\ ApiInit0 /\ ChanInit /\ MutInit

\* The HTTP client's authorization-retry protocol.
Next == HttpNext /\ UNCHANGED <<cacheVars, sessVars, apiVars, chanVars, mutVars>>

Spec == Init /\ [][Next]_vars

\* The Task Cache under REST responses and push events.
CacheNext == (CacheRestNext \/ CachePushNext) /\ UNCHANGED <<httpVars, sessVars, apiVars, chanVars, mutVars>>

CacheSpec == Init /\ [][CacheNext]_vars

\* The Task Cache under REST responses alone.
RestNext == CacheRestNext /\ UNCHANGED <<httpVars, sessVars, apiVars, chanVars, mutVars>>

RestSpec == Init /\ [][RestNext]_vars

\* The Session Manager.  The process starts with whatever an earlier process
\* left in the Token Store: any subset of the three keys.
SessionInit ==
  /\ accessTok \in {Absent, AccessOf(1)}
  /\ refreshTok \in {Absent, RefreshOf(1)}
  /\ userData \in BOOLEAN
  /\ isRefreshing = FALSE
  /\ refreshSubscribers = << >>
  /\ pc = [r \in Reqs |-> "idle"]
  /\ skipAuth = [r \in Reqs |-> FALSE]
  /\ isRetry = [r \in Reqs |-> FALSE]
  /\ carried = [r \in Reqs |-> << >>]
  /\ waitSince = [r \in Reqs |-> 0]
  /\ micro = << >>
  /\ minted = 1
  /\ out = NoOut
  /\ CacheInit
  /\ SessInit
  /\ ApiInit0
  /\ ChanInit
  /\ MutInit

SessionNext == SessionStep /\ UNCHANGED <<clientVars, boardVars, apiVars, chanVars, mutVars>>

SessionSpec == SessionInit /\ [][SessionNext]_vars

\* The domain operations of the HTTP client and the loads of the task
\* board.  The user may or may not have a team, a project, a stored default
\* project id.
ApiInit ==
  /\ HttpInit
  /\ CacheInit
  /\ SessInit
  /\ ApiIdle
  /\ srvTeams \in {<< >>, <<7>>}
  /\ srvProjects \in {<< >>, <<9>>}
  /\ defProj \in {<< >>, ToStr(9)}
  /\ ChanInit
  /\ MutInit

authVars == <<authed, authUser, wsOpen, booted, loginPc, loginGen, ruPending,
              curReqs, oldReqs, sev>>

ApiNext == ApiStep /\ UNCHANGED <<httpVars, boardVars, authVars, chanVars, mutVars>>

ApiSpec == ApiInit /\ [][ApiNext]_vars

\* Default-project resolutions by callers that may overlap.
ProjectNext ==
  ProjectStep /\ UNCHANGED <<httpVars, boardVars, authVars, gu, ld, rt, tasks, users,
                            chanVars, mutVars>>

ProjectSpec == ApiInit /\ [][ProjectNext]_vars

\* The Realtime Channel, driven by the Session Manager, by socket events
\* and by its own timers.
ChannelNext == ChannelStep /\ UNCHANGED <<clientVars, boardVars, apiVars, mutVars>>

ChannelSpec == SessionInit /\ [][ChannelNext]_vars

\* The Realtime Channel of a session resumed from a Token Store that holds
\* the three keys.
ReconnectInit ==
  /\ SessionInit
  /\ accessTok # Absent /\ refreshTok # Absent /\ userData

ReconnectNext == ReconnectStep /\ UNCHANGED <<clientVars, boardVars, apiVars, mutVars>>

ReconnectSpec == ReconnectInit /\ [][ReconnectNext]_vars

\* The local mutations of the task board in a resumed session, with the
\* channel steps that give it a socket and a project.
MutationNext ==
  \/ JoinStep /\ UNCHANGED <<clientVars, boardVars, apiVars, mutVars>>
  \/ MutationStep /\ UNCHANGED <<httpVars, sessVars, apiVars, chanVars>>

MutationSpec == ReconnectInit /\ [][MutationNext]_vars

\* ================================================================ claims
\* the calls whose refreshTokens() has a POST to /auth/refresh in flight
Refreshing == {r \in Reqs : pc[r] = "refreshing"}

\* C1: at most one POST to /auth/refresh is in flight at any time, and it is
\* in flight only while isRefreshing is set; a call that reaches
\* refreshTokens meanwhile waits in refreshSubscribers and posts nothing.
C1_SingleRefreshInFlight ==
  /\ Cardinality(Refreshing) <= 1
  /\ Refreshing # {} => isRefreshing
  /\ \A r \in Reqs : pc[r] = "subscribed" => r \in SeqToSet(refreshSubscribers)

\* C1 witness: two calls got a 401 while a third call's refresh was in flight
\* and both subscribed to it.
C1_Witness ==
  /\ Cardinality(Refreshing) = 1
  /\ Len(refreshSubscribers) = 2

\* C2 (as claimed): no subscriber stays blocked once the refresh it waited on
\* has finished: a call is subscribed only while a refresh is in flight.
C2_SubscribersReleased ==
  \A r \in Reqs : pc[r] = "subscribed" => (isRefreshing /\ Refreshing # {})

\* nothing is outstanding: no fetch, no refresh POST, no continuation
Quiescent ==
  /\ micro = << >>
  /\ \A r \in Reqs : pc[r] \notin {"inflight", "refreshing", "resume"}

\* a running call has put its request on the wire at most twice
AtMostTwoSends == \A r \in Reqs : Sends(r) <= 2

\* a retried attempt never reaches refreshTokens again
RetryNeverRefreshes ==
  \A r \in Reqs : (pc[r] = "inflight" /\ isRetry[r]) => waitSince[r] > 0

\* C3 (as claimed): a call sends its request at most twice, a retried attempt
\* starts no refresh, and every call terminates: once nothing is outstanding
\* every call that was made has returned.
C3_AtMostTwoSendsAndTerminates ==
  /\ AtMostTwoSends
  /\ \A r \in Reqs : isRetry[r] => pc[r] \in {"inflight"}
  /\ Quiescent => \A r \in Reqs : pc[r] \in {"idle", "done"}

\* C4: when refreshTokens() gives a call false, the call's caller gets a
\* failure, the three keys are gone from the Token Store and exactly one
\* 'auth:logout' event is dispatched; no other step dispatches one.
C4_FailedRefreshLogsOutOnce ==
  /\ out.refreshed = "false" =>
       /\ out.req # 0 /\ out.res = "fail"
       /\ accessTok = Absent /\ refreshTok = Absent /\ ~userData
       /\ out.dispatched = 1
  /\ out.refreshed # "false" => out.dispatched = 0

\* C4 witness: the refresh endpoint rejected the POST of the call that now
\* failed, in a session that had all three keys stored.
C4_Witness ==
  /\ out.refreshed = "false" /\ out.via = "post"
  /\ out.res = "fail" /\ out.dispatched = 1
  /\ accessTok = Absent /\ refreshTok = Absent /\ ~userData

\* C5: when a refresh succeeded, both stored tokens are the pair the endpoint
\* returned, and a request issued again because of it (by the initiator or by
\* a released subscriber) carries that pair's access token, not the token of
\* the attempt that got the 401.
C5_RetryCarriesNewToken ==
  /\ (micro # << >> /\ Head(micro).refreshed) =>
        /\ accessTok = AccessOf(minted)
        /\ refreshTok = RefreshOf(minted)
  /\ out.refreshed = "true" =>
        /\ accessTok = AccessOf(minted) /\ refreshTok = RefreshOf(minted)
        /\ carried[out.sent][2] = AccessOf(minted)
  /\ \A r \in Reqs : isRetry[r] =>
        /\ Sends(r) = 2
        /\ carried[r][2] # carried[r][1]
        /\ carried[r][2] # Absent

\* C5 witness: a released subscriber has just been issued again, after the
\* initiator, both with the new token; the first attempts carried the old one.
C5_Witness ==
  /\ out.refreshed = "true" /\ out.via = "callback"
  /\ \E r \in Reqs : r # out.sent /\ isRetry[r] /\ carried[r][2] = carried[out.sent][2]
  /\ carried[out.sent][1] = AccessOf(1)
  /\ carried[out.sent][2] = AccessOf(2)

C7_OneEntryPerId ==
  \A i \in 1..Len(tasks), j \in 1..Len(tasks) :
     i # j => tasks[i].id # tasks[j].id

\* C8: handling a task-updated push event or the response of an update or
\* status-change call never adds an entry to the Task Cache: a task that was
\* removed from the cache is not brought back by it, and the cache keeps
\* its length.
C8_StaleUpdateDoesNotReinsert ==
  [][cev'.kind \in {"updateDone", "pushUpdated"} =>
        /\ Ids(tasks') \subseteq Ids(tasks)
        /\ Len(tasks') = Len(tasks)]_vars

\* C8 witness: the response of an update call has been handled after the
\* task was deleted at the remote API and removed from the cache; the cache
\* does not hold the task.
C8_Witness ==
  /\ cev.kind = "updateDone"
  /\ cev.id \notin Ids(tasks)
  /\ cev.id \notin Ids(server)
  /\ cev.id < nextId
  /\ \A r \in replies : r.id # cev.id

\* C9: for the cache as it is in any reachable state and for every
\* task-updated push event, applying the event twice gives the same
\* sequence of tasks as applying it once.
C9_PushUpdateIdempotent ==
  \A t \in TaskVals :
     OnTaskUpdated(OnTaskUpdated(tasks, t), t) = OnTaskUpdated(tasks, t)

\* C9 witness: two tasks were created locally and a task-updated push event
\* has replaced the first of them in place.
C9_Witness ==
  /\ cev = Event("pushUpdated", 1)
  /\ pushes = 1
  /\ tasks = <<[id |-> 1, ver |-> "b"], [id |-> 2, ver |-> "a"]>>

\* C10: the completion of a local create puts the created task behind every
\* task the cache already holds and leaves those as they were, so tasks
\* created one after the other stand in creation order; a task-created push
\* event for an id the cache holds leaves the cache as it was.
C10_CreateOrderAndPushDedup ==
  [][/\ cev'.kind = "createDone" =>
          /\ Len(tasks') = Len(tasks) + 1
          /\ SubSeq(tasks', 1, Len(tasks)) = tasks
          /\ tasks'[Len(tasks')].id = cev'.id
     /\ (cev'.kind = "pushCreated" /\ cev'.id \in Ids(tasks)) =>
          tasks' = tasks]_vars

\* C10 witness: tasks 1 and 2 were created one after the other, stand in the
\* cache in that order, and a task-created push event for task 1 has just
\* been handled.
C10_Witness ==
  /\ cev = Event("pushCreated", 1)
  /\ pushes = 1 /\ ops = 2 /\ nextId = 3 /\ replies = {}
  /\ tasks = <<[id |-> 1, ver |-> "a"], [id |-> 2, ver |-> "a"]>>

\* C11: after initializeAuth the session is Authenticated, and the Realtime
\* Channel open, only if the Token Store held all three keys; it is then
\* open and the keys are still there.  If a key was missing the session is
\* Unauthenticated, the channel is not open and no key is left.
C11_ResumeOnlyWithAllThree ==
  sev.kind = "init" =>
    /\ authed => (sev.was = 3 /\ wsOpen /\ KeysPresent = 3)
    /\ wsOpen => sev.was = 3
    /\ sev.was < 3 => (~authed /\ ~wsOpen /\ KeysPresent = 0)

\* C11 witness: the process started with two of the three keys stored;
\* the session is Unauthenticated and the store is empty.
C11_Witness ==
  /\ sev.kind = "init" /\ sev.was = 2
  /\ ~authed /\ KeysPresent = 0

C13_SessionEndedSignalLogsOut ==
  (sev.sig /\ sev.was = 1) =>
    /\ ~authed
    /\ KeysPresent = 0
    /\ ~wsOpen

\* C13 witness: a request of the board ended the session that was
\* Authenticated.
C13_Witness ==
  /\ sev.kind = "ended" /\ sev.sig /\ sev.was = 1
  /\ ~authed /\ KeysPresent = 0 /\ ~wsOpen

\* C14 (as claimed): when a login's user fetch has returned a user record
\* (its token call having returned a pair), the session is Authenticated,
\* both tokens and the user record are in the Token Store and the Realtime
\* Channel is open.
C14_LoginAuthenticates ==
  sev.kind = "login" =>
    /\ sev.was = 0 /\ authed
    /\ accessTok # Absent /\ refreshTok # Absent /\ userData
    /\ wsOpen

C16_StatusRoundTrip ==
  /\ \A a \in ApiStatuses : mapStatusToApi(mapStatusFromApi(a)) = a
  /\ \A st \in UiStatuses : mapStatusFromApi(mapStatusToApi(st)) = st
  /\ rt.ui # "none" => (rt.api \in ApiStatuses /\ rt.back = rt.ui)

\* C16 witness: a task was moved to 'In Progress': in_progress went out and
\* 'In Progress' came back into the cache.
C16_Witness ==
  /\ rt = [ui |-> "In Progress", api |-> "in_progress", back |-> "In Progress"]
  /\ Len(tasks) > 0 /\ tasks[1].status = "In Progress"

\* C17 (as claimed): every task getTasks returns and every task in the Task
\* Cache has a status among To Do, In Progress and Done; a task whose API
\* status is none of todo, in_progress, done has status 'To Do'.
C17_InboundStatusDefaultsToToDo ==
  /\ \A i \in 1..Len(tasks) : tasks[i].status \in UiStatuses
  /\ \A i \in 1..Len(gt.ret) :
        /\ gt.ret[i].status \in UiStatuses
        /\ gt.wire[i].status \notin ApiStatuses => gt.ret[i].status = "To Do"

C19_DefaultProjectMemoized ==
  /\ \A r \in Resolvers : res[r].pc = "done" => defProj = ToStr(res[r].ret)
  /\ \A r \in Resolvers :
        (res[r].pc = "done" /\ res[r].via = "cache") => res[r].calls = 0
  /\ \A r \in Resolvers :
        res[r].via = "noteam" => (res[r].pc = "failed" /\ srvProjects = << >>)

C26_NoSubscriberOutsideRefresh ==
  ~isRefreshing => refreshSubscribers = << >>

\* C27 (as claimed): a login that failed at any step leaves the session
\* Unauthenticated with neither token in the Token Store.
C27_FailedLoginLeavesNoTokens ==
  sev.kind = "loginFail" =>
    /\ ~authed
    /\ accessTok = Absent
    /\ refreshTok = Absent

\* C28 (as claimed): resolutions of the default project that overlap with no
\* stored id and no project send at most one project-creation request between
\* them, and those that have returned hold the same id.
C28_OneCreationForConcurrentResolvers ==
  /\ Len(srvProjects) + Cardinality({r \in Resolvers : res[r].pc = "create"}) <= 1
  /\ \A r1, r2 \in Resolvers :
        (res[r1].pc = "done" /\ res[r2].pc = "done") => res[r1].ret = res[r2].ret

\* C21 (as claimed): a reconnect timer set by a step is at most the fifth
\* since the last 'connect' event, and the k-th since then has a delay of
\* 1000 * 2^(k-1) ms.
C21_AtMostFiveBetweenConnects ==
  wev.nthc > 0 =>
    /\ wev.nthc <= 5
    /\ ws.delay = 1000 * 2 ^ (wev.nthc - 1)

\* C21 (amended): a reconnect timer set by a step is at most the fifth since
\* reconnectAttempts was last set to 0 (by a 'connect' event, by
\* refreshConnection, or by the invalid-token path finding both tokens), and
\* the k-th since then has a delay of 1000 * 2^(k-1) ms; a disconnect or
\* connect-error event sets no timer exactly when five were set since then.
C21_BackoffBetweenResets ==
  /\ wev.nth > 0 =>
       /\ wev.nth <= 5
       /\ ws.delay = 1000 * 2 ^ (wev.nth - 1)
  /\ wev.kind \in {"disconnect", "connect_error", "stray_error"} =>
       (ws.delay = 0 <=> (wev.nth = 0 /\ sinceReset = 5))

\* C21 witness: five reconnects were scheduled, and a further connect error
\* has scheduled none.
C21_Witness ==
  /\ wev.kind = "connect_error"
  /\ ws.delay = 0
  /\ sinceReset = 5
  /\ ws.reconnectAttempts = maxReconnectAttempts

\* C22 (as claimed): the step that handles the invalid-token signal leaves no
\* socket and sets no reconnect timer; the step after the wait makes a socket
\* exactly if both tokens are in the Token Store, with the stored access
\* token, and that socket is then the only one.
C22_InvalidTokenReconnectsOnce ==
  /\ wev.kind = "invalid_token" => (ws.socket = "none" /\ ws.delay = 0)
  /\ wev.kind = "wait_over" =>
       /\ ws.made <=> (accessTok # Absent /\ refreshTok # Absent)
       /\ ws.made => (ws.token = accessTok /\ ws.over = 0)

\* C23 (as claimed): a step makes a socket only if the session is then
\* Authenticated and the Token Store holds an access token.
C23_ConnectsOnlyWhileAuthenticated ==
  ws.made => (authed /\ accessTok # Absent)

\* C25 (as claimed): in an Authenticated session with the task board
\* mounted, a task event that arrives on a socket made by a reconnect (timer,
\* invalid-token path or refreshConnection) is applied to the Task Cache.
C25_PushAppliedAfterReconnect ==
  (wev.kind \in PushKinds /\ authed /\ mounted
     /\ ws.by \in {"timer", "wait", "refresh"}) =>
    tasks = PushApply(wev.kind, wev.before, wev.task)

\* C29 (as claimed): at most one socket is connecting or connected; a step
\* makes a socket only when none is; a logout leaves none.
C29_OneLiveSocket ==
  /\ Live(ws) <= 1
  /\ ws.made => ws.over = 0
  /\ wev.kind = "logout" => Live(ws) = 0

C30_FailedMutationLeavesCache ==
  cev.kind = "failed" =>
    /\ mev.kind = "failed"
    /\ tasks = mev.before
    /\ mev.emitted = "none"
    /\ error # "none"
    /\ mev.raised

\* C30 witness: the update of a task the cache holds has failed on a joined,
\* connected channel.
C30_Witness ==
  /\ mev.kind = "failed" /\ cev.kind = "failed"
  /\ mev.socket = "connected" /\ mev.joined = 9
  /\ error = "Request failed"
  /\ Len(tasks) = 1

====
